---- MODULE Spec2Model ----
(***************************************************************************)
(* Model of the LOE Lviv outages integration: the LoeApi snapshot          *)
(* (api/loe_api.py), its interval resolver and point/range queries, the    *)
(* coordinator's update cycle and derived queries (coordinator.py) and     *)
(* the merge helper.                                                       *)
(*                                                                         *)
(* Representation                                                          *)
(*   - an optional value is a sequence: None == <<>>, a present v is <<v>>;*)
(*   - a time string "HH:MM" is the pair <<HH, MM>> of its two two-digit   *)
(*     numbers, a date string "DD.MM.YYYY" the triple <<DD, MM, YYYY>>;    *)
(*   - a datetime.date is its day ordinal (days since 31.12 of the year    *)
(*     before 2025), a datetime.datetime the record [day, min] of its      *)
(*     date and its wall-clock minute of the day (0..1439).  All instants  *)
(*     are Europe/Kiev wall-clock; comparison is the comparison of the     *)
(*     (day, min) pairs, which is what Python does for two datetimes of    *)
(*     the same zone.  DST folds and gaps are not modelled.                *)
(*   - the normalised schedule text is the record of what the three regex  *)
(*     patterns find in it: the captured date string, the captured update  *)
(*     strings, and per captured group id the captured time-range pairs.   *)
(***************************************************************************)
EXTENDS Integers, Sequences, FiniteSets, TLC

VARIABLES
    group,            \* LoeApi.group ("" stands for None / unset)
    raw_data,         \* LoeApi.raw_data
    schedule_text,    \* LoeApi.schedule_text
    schedule_date,    \* LoeApi.schedule_date
    updated_on,       \* LoeApi.updated_on
    group_schedules,  \* LoeApi.group_schedules
    pc,               \* position of the coordinator's update cycle
    outcome,          \* how the last finished _async_update_data ended
    response,         \* what the network answered to the last request
    parsed,           \* TRUE once _parse_schedule_text has run at least once
    q,                \* the query call in progress (synchronous), or NoQuery
    merge_in,         \* argument of merge_consecutive_outages
    merge_out         \* its result, and the result of merging that again

vars == <<group, raw_data, schedule_text, schedule_date, updated_on,
          group_schedules, pc, outcome, response, parsed, q,
          merge_in, merge_out>>

apiVars == <<raw_data, schedule_text, schedule_date, updated_on,
             group_schedules>>

mergeVars == <<merge_in, merge_out>>

-----------------------------------------------------------------------------
(* Bounds *)

\* longest list of time ranges a group has in a schedule text
MaxRanges == 2

\* longest event sequence handed to merge_consecutive_outages
MaxMergeLen == 3

\* the merge inputs use the instants 09:00 .. 09:00 + MaxMergeTicks minutes
MaxMergeTicks == 3

-----------------------------------------------------------------------------
(* Values *)

None == <<>>

Some(v) == <<v>>

EVENT_NAME_OUTAGE == "Definite"

\* two of AVAILABLE_GROUPS
Groups == {"3.1", "4.2"}

MinutesPerDay == 1440

DtLess(a, b) == a.day < b.day \/ (a.day = b.day /\ a.min < b.min)

DtLeq(a, b) == a = b \/ DtLess(a, b)

OutageEvent(type, start, end) ==
    [event_type |-> type, start |-> start, end |-> end]

-----------------------------------------------------------------------------
(* strptime: the date and time formats of _parse_schedule_text *)

DaysInMonth(m) ==
    CASE m = 2 -> 28
      [] m \in {4, 6, 9, 11} -> 30
      [] OTHER -> 31

RECURSIVE DaysBeforeMonth(_)
DaysBeforeMonth(m) ==
    IF m <= 1 THEN 0 ELSE DaysBeforeMonth(m - 1) + DaysInMonth(m - 1)

\* datetime.strptime(date_str, "%d.%m.%Y").date(): None stands for ValueError.
\* Years are taken as 365 days long (no leap year lies in the modelled range).
strptime_date(date_str) ==
    LET d == date_str[1]
        m == date_str[2]
        y == date_str[3]
    IN  IF m \in 1..12 /\ d >= 1 /\ d <= DaysInMonth(m) /\ y >= 1
        THEN Some(365 * (y - 2025) + DaysBeforeMonth(m) + d)
        ELSE None

\* datetime.strptime(f"{date_str} {time_str}", "%d.%m.%Y %H:%M") with the
\* Europe/Kiev zone attached: None stands for ValueError.
strptime_datetime(date_str, time_str) ==
    LET day == strptime_date(date_str)
    IN  IF day # None /\ time_str[1] \in 0..23 /\ time_str[2] \in 0..59
        THEN Some([day |-> day[1], min |-> time_str[1] * 60 + time_str[2]])
        ELSE None

-----------------------------------------------------------------------------
(* Interval resolver: LoeApi._time_str_to_minutes, _minutes_to_datetime,   *)
(* get_events_for_group                                                    *)

_time_str_to_minutes(time_str) == time_str[1] * 60 + time_str[2]

\* _minutes_to_datetime without its end-of-day branch: datetime.time(24, 0)
\* raises
_minutes_to_datetime_no_end_of_day(minutes, date) ==
    LET hours == minutes \div 60
        mins == minutes % 60
    IN  IF hours \in 0..23
        THEN Some([day |-> date, min |-> hours * 60 + mins])
        ELSE None

\* _minutes_to_datetime adding the minutes to 00:00 of the date, across days
_minutes_to_datetime_carry_day(minutes, date) ==
    Some([day |-> date + minutes \div MinutesPerDay,
          min |-> minutes % MinutesPerDay])

\* None stands for the ValueError of datetime.time(hours, mins), hours > 23
_minutes_to_datetime(minutes, date) ==
    LET hours == minutes \div 60
        mins == minutes % 60
    IN  IF hours = 24
        THEN Some([day |-> date + 1, min |-> 0])
        ELSE IF hours \in 0..23
             THEN Some([day |-> date, min |-> hours * 60 + mins])
             ELSE None

\* the end minutes after the "crossing midnight" adjustment (lines 188-189)
EndMinutes(start_str, end_str) ==
    LET start_minutes == _time_str_to_minutes(start_str)
        end_minutes == _time_str_to_minutes(end_str)
    IN  IF end_minutes < start_minutes \/ end_str = <<24, 0>>
        THEN MinutesPerDay
        ELSE end_minutes

\* one iteration of the loop of get_events_for_group: the events appended
\* for one raw range (none when the except clause is taken)
ResolveRange(range, date) ==
    LET start_str == range[1]
        end_str == range[2]
        start_dt == _minutes_to_datetime(_time_str_to_minutes(start_str), date)
        end_dt == _minutes_to_datetime(EndMinutes(start_str, end_str), date)
    IN  IF start_dt = None \/ end_dt = None
        THEN <<>>
        ELSE <<OutageEvent(EVENT_NAME_OUTAGE, start_dt[1], end_dt[1])>>

RECURSIVE ResolveRanges(_, _)
ResolveRanges(time_ranges, date) ==
    IF time_ranges = <<>>
    THEN <<>>
    ELSE ResolveRange(Head(time_ranges), date)
         \o ResolveRanges(Tail(time_ranges), date)

\* insert e after every element whose start is not later (stable)
RECURSIVE InsertByStart(_, _)
InsertByStart(sorted, e) ==
    IF sorted = <<>>
    THEN <<e>>
    ELSE IF DtLess(e.start, Head(sorted).start)
         THEN <<e>> \o sorted
         ELSE <<Head(sorted)>> \o InsertByStart(Tail(sorted), e)

\* sorted(events, key=lambda e: e.start): Python's sort is stable
RECURSIVE SortedByStart(_)
SortedByStart(events) ==
    IF events = <<>>
    THEN <<>>
    ELSE InsertByStart(SortedByStart(SubSeq(events, 1, Len(events) - 1)),
                       events[Len(events)])

\* get_events_for_group returning the events in the order of the raw ranges
get_events_for_group_unsorted(g) ==
    IF schedule_date = None \/ g \notin DOMAIN group_schedules
    THEN <<>>
    ELSE ResolveRanges(group_schedules[g], schedule_date[1])

\* get_events_for_group resolving on 27.01.2025 when no schedule date is known
get_events_for_group_default_date(g) ==
    IF g \notin DOMAIN group_schedules
    THEN <<>>
    ELSE SortedByStart(ResolveRanges(group_schedules[g],
             IF schedule_date = None THEN 27 ELSE schedule_date[1]))

get_events_for_group(g) ==
    IF schedule_date = None \/ g \notin DOMAIN group_schedules
    THEN <<>>
    ELSE SortedByStart(ResolveRanges(group_schedules[g], schedule_date[1]))

-----------------------------------------------------------------------------
(* Query engine: get_current_event, get_next_event, get_events_between     *)

\* the scan of get_current_event with a closed interval: at <= event.end
RECURSIVE FirstCurrentClosedEnd(_, _)
FirstCurrentClosedEnd(events, at) ==
    IF events = <<>>
    THEN None
    ELSE IF DtLeq(Head(events).start, at) /\ DtLeq(at, Head(events).end)
         THEN Some(Head(events))
         ELSE FirstCurrentClosedEnd(Tail(events), at)

RECURSIVE FirstCurrent(_, _)
FirstCurrent(events, at) ==
    IF events = <<>>
    THEN None
    ELSE IF DtLeq(Head(events).start, at) /\ DtLess(at, Head(events).end)
         THEN Some(Head(events))
         ELSE FirstCurrent(Tail(events), at)

get_current_event(at) ==
    IF group = ""
    THEN None
    ELSE FirstCurrent(get_events_for_group(group), at)

RECURSIVE FirstAfter(_, _)
FirstAfter(events, at) ==
    IF events = <<>>
    THEN None
    ELSE IF DtLess(at, Head(events).start)
         THEN Some(Head(events))
         ELSE FirstAfter(Tail(events), at)

get_next_event(at) ==
    IF group = ""
    THEN None
    ELSE FirstAfter(get_events_for_group(group), at)

\* the filter of get_events_between testing the event's end points only
IntersectsEndPointsOnly(event, start_date, end_date) ==
    \/ DtLeq(start_date, event.start) /\ DtLeq(event.start, end_date)
    \/ DtLeq(start_date, event.end) /\ DtLeq(event.end, end_date)

\* the filter of get_events_between (lines 246-251)
Intersects(event, start_date, end_date) ==
    \/ DtLeq(start_date, event.start) /\ DtLeq(event.start, end_date)
    \/ DtLeq(start_date, event.end) /\ DtLeq(event.end, end_date)
    \/ DtLeq(event.start, start_date) /\ DtLeq(start_date, event.end)
    \/ DtLeq(event.start, end_date) /\ DtLeq(end_date, event.end)

get_events_between(start_date, end_date) ==
    IF group = ""
    THEN <<>>
    ELSE LET Keep(event) == Intersects(event, start_date, end_date)
         IN  SelectSeq(get_events_for_group(group), Keep)

get_schedule_updated_on == updated_on

-----------------------------------------------------------------------------
(* Schedule texts and response bodies *)

SeqsUpTo(S, n) == UNION {[1..k -> S] : k \in 0..n}

\* self.schedule_text is None (never extracted, or extraction raised)
NoneText == [kind |-> "None"]

\* the extracted text is the empty string
EmptyText == [kind |-> "empty"]

\* a non-empty normalised text, as what the three patterns capture in it
Text(date, upd, groups) ==
    [kind |-> "text", date |-> date, upd |-> upd, groups |-> groups]

\* Python truthiness of self.schedule_text
TextTruthy(text) == text.kind = "text"

\* the captures of DATE_PATTERN: 31.02.2025 matches the pattern and is no date
DateStrs == {<<27, 1, 2025>>, <<31, 2, 2025>>}

\* the captures of UPDATE_PATTERN: 25:00 matches the pattern and is no time
UpdateStrs == {<<<<10, 0>>, <<27, 1, 2025>>>>, <<<<25, 0>>, <<27, 1, 2025>>>>}

\* the captures of TIME_RANGE_PATTERN used by the update-cycle model
CycleRanges == {<<<<9, 0>>, <<13, 0>>>>, <<<<13, 0>>, <<24, 0>>>>}

\* group id -> time ranges, for the groups the text mentions: no group, or
\* the group "3.1" with a list of up to MaxRanges ranges
GroupCaptures(ranges) ==
    {<<>>} \cup {[g \in {"3.1"} |-> s] : s \in SeqsUpTo(ranges, MaxRanges)}

CycleTexts ==
    {Text(date, upd, groups) :
        date \in {None} \cup {Some(d) : d \in DateStrs},
        upd \in {None} \cup {Some(u) : u \in UpdateStrs},
        groups \in GroupCaptures(CycleRanges)}

\* self.raw_data is None
NoneBody == [shape |-> "None", text |-> NoneText]

\* the JSON bodies of a 2xx response, by the path they take through
\* fetch_schedule_data and _extract_schedule_text:
\*   falsy        an empty object: `if self.raw_data` fails
\*   no_items     "hydra:member" missing or empty, or "menuItems" of the
\*                first member missing or empty
\*   no_rawhtml   "rawHtml" of the first menu item missing, or holding
\*                markup and whitespace only: the text is ""
\*   bad_rawhtml  "rawHtml" is no string: re.sub raises TypeError
\*   html         "rawHtml" is a string with text left after normalisation
JsonBodies ==
    {[shape |-> s, text |-> NoneText] :
        s \in {"falsy", "no_items", "no_rawhtml", "bad_rawhtml"}}
    \cup {[shape |-> "html", text |-> t] : t \in CycleTexts}

\* a 2xx body whose first member is no object: members[0].get raises
\* AttributeError, which _extract_schedule_text does not catch
BadMemberBody == [shape |-> "bad_member", text |-> NoneText]

BodyTruthy(body) == body.shape \notin {"None", "falsy"}

-----------------------------------------------------------------------------
(* LoeApi._extract_schedule_text and _parse_schedule_text as functions of   *)
(* the fields they read                                                    *)

\* the value of self.schedule_text after _extract_schedule_text
_extract_schedule_text(body, old_text) ==
    CASE body.shape = "no_items" -> old_text
      [] body.shape = "no_rawhtml" -> EmptyText
      [] body.shape = "bad_rawhtml" -> NoneText
      [] body.shape = "html" -> body.text
      [] OTHER -> old_text

\* _parse_schedule_text leaving schedule_date alone when the date phrase is
\* missing
_parse_schedule_text_keeps_date(text) ==
    [schedule_date |->
        IF text.date = None THEN schedule_date ELSE strptime_date(text.date[1]),
     updated_on |->
        IF text.upd = None
        THEN None
        ELSE strptime_datetime(text.upd[1][2], text.upd[1][1]),
     group_schedules |-> text.groups]

\* the three fields after _parse_schedule_text on a non-empty text
_parse_schedule_text(text) ==
    [schedule_date |->
        IF text.date = None THEN None ELSE strptime_date(text.date[1]),
     updated_on |->
        IF text.upd = None
        THEN None
        ELSE strptime_datetime(text.upd[1][2], text.upd[1][1]),
     group_schedules |-> text.groups]

-----------------------------------------------------------------------------
(* helpers.merge_consecutive_outages *)

RECURSIVE MergeLoop(_, _, _)
MergeLoop(current_event, rest, merged) ==
    IF rest = <<>>
    THEN Append(merged, current_event)
    ELSE LET next_event == Head(rest)
         IN  IF /\ current_event.end = next_event.start
                /\ current_event.event_type = next_event.event_type
             THEN MergeLoop(OutageEvent(current_event.event_type,
                                        current_event.start, next_event.end),
                            Tail(rest), merged)
             ELSE MergeLoop(next_event, Tail(rest),
                            Append(merged, current_event))

\* a merge that joins an event with its successor only, and starts afresh
\* after each joined pair
RECURSIVE MergePairsOnly(_)
MergePairsOnly(events) ==
    IF Len(events) < 2
    THEN events
    ELSE IF /\ events[1].end = events[2].start
            /\ events[1].event_type = events[2].event_type
         THEN <<OutageEvent(events[1].event_type, events[1].start,
                            events[2].end)>>
              \o MergePairsOnly(SubSeq(events, 3, Len(events)))
         ELSE <<events[1]>> \o MergePairsOnly(Tail(events))

merge_consecutive_outages(events) ==
    IF events = <<>>
    THEN <<>>
    ELSE MergeLoop(Head(events), Tail(events), <<>>)

-----------------------------------------------------------------------------
(* Coordinator queries: find_next_outage, get_events_between,              *)
(* get_merged_outages, next_outage, next_connectivity                      *)

OUTAGE_LOOKAHEAD == 1

\* start_date + datetime.timedelta(days=days)
PlusDays(start_date, days) ==
    [day |-> start_date.day + days, min |-> start_date.min]

\* find_next_outage accepting an event that starts at now
RECURSIVE find_next_outage_from_now(_, _)
find_next_outage_from_now(events, now) ==
    IF events = <<>>
    THEN None
    ELSE IF DtLeq(now, Head(events).start)
         THEN Some(Head(events))
         ELSE find_next_outage_from_now(Tail(events), now)

RECURSIVE find_next_outage(_, _)
find_next_outage(events, now) ==
    IF events = <<>>
    THEN None
    ELSE IF DtLess(now, Head(events).start)
         THEN Some(Head(events))
         ELSE find_next_outage(Tail(events), now)

\* LoeOutagesCoordinator.get_events_between: the api's result, sorted
coordinator_get_events_between(start_date, end_date) ==
    SortedByStart(get_events_between(start_date, end_date))

get_merged_outages(start_date, lookahead_days) ==
    merge_consecutive_outages(
        coordinator_get_events_between(start_date,
                                       PlusDays(start_date, lookahead_days)))

\* the property next_outage, read when dt_utils.now() is now
next_outage(now) ==
    LET events == get_merged_outages(now, OUTAGE_LOOKAHEAD)
        event == find_next_outage(events, now)
    IN  IF event # None THEN Some(event[1].start) ELSE None

\* the first event with start <= now < end
RECURSIVE FirstContaining(_, _)
FirstContaining(events, now) ==
    IF events = <<>>
    THEN None
    ELSE IF DtLeq(Head(events).start, now) /\ DtLess(now, Head(events).end)
         THEN Some(Head(events))
         ELSE FirstContaining(Tail(events), now)

\* the property next_connectivity, read when dt_utils.now() is now
next_connectivity(now) ==
    LET events == get_merged_outages(now, OUTAGE_LOOKAHEAD)
        inside == FirstContaining(events, now)
        event == find_next_outage(events, now)
    IN  IF inside # None
        THEN Some(inside[1].end)
        ELSE IF event # None THEN Some(event[1].end) ELSE None

-----------------------------------------------------------------------------
(* Query calls.  A query is synchronous: nothing else runs between its     *)
(* call and its return, so q holds at most one call.                       *)

NoQuery == [op |-> "none", args |-> <<>>, result |-> <<>>]

\* the instants the queries are asked at: 27.01.2025 00:00, 09:00, 13:00
\* and 28.01.2025 00:00
QueryTimes ==
    {[day |-> 27, min |-> m] : m \in {0, 540, 780}}
    \cup {[day |-> 28, min |-> 0]}

\* a direct call of get_events_for_group
GetEvents ==
    /\ q = NoQuery
    /\ \E g \in Groups :
        q' = [op |-> "events", args |-> <<g>>,
              result |-> get_events_for_group(g)]
    /\ UNCHANGED <<group, apiVars, pc, outcome, response, parsed, mergeVars>>

QueryCurrent ==
    /\ q = NoQuery
    /\ \E at \in QueryTimes :
        q' = [op |-> "current", args |-> <<at>>,
              result |-> get_current_event(at)]
    /\ UNCHANGED <<group, apiVars, pc, outcome, response, parsed, mergeVars>>

QueryNext ==
    /\ q = NoQuery
    /\ \E at \in QueryTimes :
        q' = [op |-> "next", args |-> <<at>>, result |-> get_next_event(at)]
    /\ UNCHANGED <<group, apiVars, pc, outcome, response, parsed, mergeVars>>

QueryBetween ==
    /\ q = NoQuery
    /\ \E start_date \in QueryTimes, end_date \in QueryTimes :
        q' = [op |-> "between", args |-> <<start_date, end_date>>,
              result |-> get_events_between(start_date, end_date)]
    /\ UNCHANGED <<group, apiVars, pc, outcome, response, parsed, mergeVars>>

\* a collaborator reads coordinator.next_outage
QueryNextOutage ==
    /\ q = NoQuery
    /\ \E now \in QueryTimes :
        q' = [op |-> "next_outage", args |-> <<now>>,
              result |-> next_outage(now)]
    /\ UNCHANGED <<group, apiVars, pc, outcome, response, parsed, mergeVars>>

\* a collaborator reads coordinator.next_connectivity
QueryNextConnectivity ==
    /\ q = NoQuery
    /\ \E now \in QueryTimes :
        q' = [op |-> "next_connectivity", args |-> <<now>>,
              result |-> next_connectivity(now)]
    /\ UNCHANGED <<group, apiVars, pc, outcome, response, parsed, mergeVars>>

QueryReturn ==
    /\ q # NoQuery
    /\ q' = NoQuery
    /\ UNCHANGED <<group, apiVars, pc, outcome, response, parsed, mergeVars>>

-----------------------------------------------------------------------------
(* The update cycle: LoeOutagesCoordinator._async_update_data calling      *)
(* LoeApi.fetch_data -> fetch_schedule_data -> _get_data.  In Spec a cycle  *)
(* is two steps: the tick, and the response with all that follows it.      *)
(* Between them the cycle is suspended (translations, request, body) and   *)
(* nothing of the LoeApi has changed.  The suspension at the session's     *)
(* close, where raw_data alone is new, is a step of its own in SpecSwap.   *)

\* LoeApi.__init__
Init ==
    /\ group \in {""} \cup Groups
    /\ raw_data = NoneBody
    /\ schedule_text = NoneText
    /\ schedule_date = None
    /\ updated_on = None
    /\ group_schedules = <<>>
    /\ pc = "idle"
    /\ outcome = "none"
    /\ response = "none"
    /\ parsed = FALSE
    /\ q = NoQuery
    /\ merge_in = <<>>
    /\ merge_out = <<>>

\* a timer tick: _async_update_data runs up to the request of _get_data.
\* The model runs one cycle at a time; when _async_update_data is called is
\* decided by Home Assistant's DataUpdateCoordinator, which the sources
\* subclass and do not contain.
UpdateStart ==
    /\ pc = "idle"
    /\ q = NoQuery
    /\ pc' = "fetching"
    /\ UNCHANGED <<group, apiVars, outcome, response, parsed, q, mergeVars>>

\* a failed request that also drops the stored schedule
FetchClientErrorClears ==
    /\ pc = "fetching"
    /\ q = NoQuery
    /\ raw_data' = NoneBody
    /\ schedule_date' = None
    /\ group_schedules' = <<>>
    /\ pc' = "idle"
    /\ response' = "client_error"
    /\ outcome' = "success"
    /\ UNCHANGED <<group, schedule_text, updated_on, parsed, q, mergeVars>>

\* connection error or non-2xx status (raise_for_status): an
\* aiohttp.ClientError, which _get_data catches and turns into None;
\* fetch_schedule_data stores it and returns, and so does _async_update_data
FetchClientError ==
    /\ pc = "fetching"
    /\ q = NoQuery
    /\ raw_data' = NoneBody
    /\ pc' = "idle"
    /\ response' = "client_error"
    /\ outcome' = "success"
    /\ UNCHANGED <<group, schedule_text, schedule_date, updated_on,
                   group_schedules, parsed, q, mergeVars>>

\* the total timeout expires: asyncio.TimeoutError is no ClientError, it
\* leaves _get_data before raw_data is assigned and _async_update_data
\* re-raises it as UpdateFailed
FetchTimeout ==
    /\ pc = "fetching"
    /\ q = NoQuery
    /\ pc' = "idle"
    /\ response' = "timeout"
    /\ outcome' = "update_failed"
    /\ UNCHANGED <<group, apiVars, parsed, q, mergeVars>>

\* a 2xx response with a JSON body: fetch_schedule_data to its end
FetchJson ==
    /\ pc = "fetching"
    /\ q = NoQuery
    /\ \E body \in JsonBodies :
        LET text == IF BodyTruthy(body)
                    THEN _extract_schedule_text(body, schedule_text)
                    ELSE schedule_text
            parse == BodyTruthy(body) /\ TextTruthy(text)
            snapshot == _parse_schedule_text(text)
        IN  /\ raw_data' = body
            /\ schedule_text' = text
            /\ schedule_date' =
                IF parse THEN snapshot.schedule_date ELSE schedule_date
            /\ updated_on' = IF parse THEN snapshot.updated_on ELSE updated_on
            /\ group_schedules' =
                IF parse THEN snapshot.group_schedules ELSE group_schedules
            /\ parsed' = (parsed \/ parse)
    /\ pc' = "idle"
    /\ response' = "json"
    /\ outcome' = "success"
    /\ UNCHANGED <<group, q, mergeVars>>

\* a 2xx response whose body makes _extract_schedule_text raise
\* AttributeError: raw_data is stored, the error reaches _async_update_data
FetchJsonRaises ==
    /\ pc = "fetching"
    /\ q = NoQuery
    /\ raw_data' = BadMemberBody
    /\ pc' = "idle"
    /\ response' = "json"
    /\ outcome' = "update_failed"
    /\ UNCHANGED <<group, schedule_text, schedule_date, updated_on,
                   group_schedules, parsed, q, mergeVars>>

Next ==
    \/ UpdateStart
    \/ FetchClientError
    \/ FetchTimeout
    \/ FetchJson
    \/ FetchJsonRaises
    \/ GetEvents
    \/ QueryCurrent
    \/ QueryNext
    \/ QueryBetween
    \/ QueryNextOutage
    \/ QueryNextConnectivity
    \/ QueryReturn

Spec == Init /\ [][Next]_vars

-----------------------------------------------------------------------------
(* The resolver and the queries on every snapshot one schedule text yields: *)
(* the state after the first cycle, for every list of up to MaxRanges raw   *)
(* ranges over TimeStrs.                                                    *)

\* captures of \d{2}:\d{2}: two times of day, a minute field of 60, the
\* end-of-day sentinel, hour 24 with minutes and an hour no day has
TimeStrs == {<<9, 0>>, <<13, 0>>, <<23, 60>>, <<24, 0>>, <<24, 30>>, <<25, 0>>}

QueryTexts ==
    {Text(Some(<<27, 1, 2025>>), None, groups) :
        groups \in GroupCaptures(TimeStrs \X TimeStrs) \ {<<>>}}

InitQuery ==
    /\ group = "3.1"
    /\ \E text \in QueryTexts :
        /\ raw_data = [shape |-> "html", text |-> text]
        /\ schedule_text = text
        /\ schedule_date = _parse_schedule_text(text).schedule_date
        /\ updated_on = _parse_schedule_text(text).updated_on
        /\ group_schedules = _parse_schedule_text(text).group_schedules
    /\ pc = "idle"
    /\ outcome = "success"
    /\ response = "json"
    /\ parsed = TRUE
    /\ q = NoQuery
    /\ merge_in = <<>>
    /\ merge_out = <<>>

NextQuery ==
    \/ GetEvents
    \/ QueryCurrent
    \/ QueryNext
    \/ QueryBetween
    \/ QueryNextOutage
    \/ QueryNextConnectivity
    \/ QueryReturn

SpecQuery == InitQuery /\ [][NextQuery]_vars

-----------------------------------------------------------------------------
(* Merge engine: the inputs helpers.merge_consecutive_outages is run on     *)

\* the kinds of the merge inputs: the one kind of OutageEventType and a
\* second one, standing for a kind the enumeration is extended by
MergeKinds == {EVENT_NAME_OUTAGE, "Probable"}

\* 27.01.2025 09:00 and the MaxMergeTicks minutes after it
MergeTimes == {[day |-> 27, min |-> 540 + i] : i \in 0..MaxMergeTicks}

MergeEvents ==
    {OutageEvent(k, s, e) :
        k \in MergeKinds,
        s \in MergeTimes,
        e \in MergeTimes}

\* start-sorted event sequences with start <= end
MergeInputs ==
    {s \in SeqsUpTo({ev \in MergeEvents : DtLeq(ev.start, ev.end)},
                    MaxMergeLen) :
        \A i \in 1..(Len(s) - 1) : DtLeq(s[i].start, s[i + 1].start)}

InitMerge ==
    /\ group = "3.1"
    /\ raw_data = NoneBody
    /\ schedule_text = NoneText
    /\ schedule_date = None
    /\ updated_on = None
    /\ group_schedules = <<>>
    /\ pc = "idle"
    /\ outcome = "none"
    /\ response = "none"
    /\ parsed = FALSE
    /\ q = NoQuery
    /\ merge_in \in MergeInputs
    /\ merge_out = <<>>

\* merge_consecutive_outages(events)
MergeOnce ==
    /\ merge_out = <<>>
    /\ merge_out' = <<merge_consecutive_outages(merge_in)>>
    /\ UNCHANGED <<group, apiVars, pc, outcome, response, parsed, q, merge_in>>

\* merge_consecutive_outages applied to its own result
MergeAgain ==
    /\ Len(merge_out) = 1
    /\ merge_out' = Append(merge_out, merge_consecutive_outages(merge_out[1]))
    /\ UNCHANGED <<group, apiVars, pc, outcome, response, parsed, q, merge_in>>

NextMerge ==
    \/ MergeOnce
    \/ MergeAgain

SpecMerge == InitMerge /\ [][NextMerge]_vars

-----------------------------------------------------------------------------
(* The update cycle with the session's close as a step of its own:        *)
(* fetch_schedule_data assigns raw_data inside `async with ClientSession`, *)
(* is suspended in the session's __aexit__, and then extracts and parses   *)
(* without further suspension.                                             *)

\* two texts that agree in no field they yield, and a text with none of the
\* three phrases
SwapTexts ==
    {Text(Some(<<27, 1, 2025>>), Some(<<<<10, 0>>, <<27, 1, 2025>>>>),
          [g \in {"3.1"} |-> <<<<<<9, 0>>, <<13, 0>>>>>>]),
     Text(Some(<<28, 1, 2025>>), Some(<<<<11, 0>>, <<28, 1, 2025>>>>),
          [g \in {"3.1", "4.2"} |-> <<<<<<0, 0>>, <<9, 0>>>>>>]),
     Text(None, None, <<>>)}

SwapBodies ==
    {[shape |-> s, text |-> NoneText] :
        s \in {"falsy", "no_items", "no_rawhtml", "bad_rawhtml"}}
    \cup {[shape |-> "html", text |-> t] : t \in SwapTexts}
    \cup {NoneBody, BadMemberBody}

\* _get_data returns (a parsed 2xx body, or None after a ClientError) and
\* fetch_schedule_data assigns it to raw_data; the session's close is awaited
ResponseStored ==
    /\ pc = "fetching"
    /\ q = NoQuery
    /\ \E body \in SwapBodies :
        /\ raw_data' = body
        /\ response' = IF body = NoneBody THEN "client_error" ELSE "json"
    /\ pc' = "closing"
    /\ UNCHANGED <<group, schedule_text, schedule_date, updated_on,
                   group_schedules, outcome, parsed, q, mergeVars>>

\* a close of the session after which the date is assigned in one step and
\* the other two fields in a later one
SessionClosedFieldByField ==
    /\ q = NoQuery
    /\ \/ /\ pc = "closing"
          /\ raw_data.shape = "html"
          /\ schedule_text' = raw_data.text
          /\ schedule_date' = _parse_schedule_text(raw_data.text).schedule_date
          /\ pc' = "parsing"
          /\ UNCHANGED <<updated_on, group_schedules, outcome, parsed>>
       \/ /\ pc = "parsing"
          /\ updated_on' = _parse_schedule_text(schedule_text).updated_on
          /\ group_schedules' =
                _parse_schedule_text(schedule_text).group_schedules
          /\ parsed' = TRUE
          /\ outcome' = "success"
          /\ pc' = "idle"
          /\ UNCHANGED <<schedule_text, schedule_date>>
       \/ /\ pc = "closing"
          /\ raw_data.shape # "html"
          /\ outcome' = "success"
          /\ pc' = "idle"
          /\ UNCHANGED <<schedule_text, schedule_date, updated_on,
                         group_schedules, parsed>>
    /\ UNCHANGED <<group, raw_data, response, q, mergeVars>>

\* the session is closed: fetch_schedule_data runs to its end (lines 57-60)
\* and _async_update_data returns, or wraps the AttributeError of a body
\* whose first member is no object in UpdateFailed
SessionClosed ==
    /\ pc = "closing"
    /\ q = NoQuery
    /\ LET raises == raw_data = BadMemberBody
           text == IF BodyTruthy(raw_data) /\ ~ raises
                   THEN _extract_schedule_text(raw_data, schedule_text)
                   ELSE schedule_text
           parse == BodyTruthy(raw_data) /\ ~ raises /\ TextTruthy(text)
           snapshot == _parse_schedule_text(text)
       IN  /\ schedule_text' = text
           /\ schedule_date' =
               IF parse THEN snapshot.schedule_date ELSE schedule_date
           /\ updated_on' = IF parse THEN snapshot.updated_on ELSE updated_on
           /\ group_schedules' =
               IF parse THEN snapshot.group_schedules ELSE group_schedules
           /\ parsed' = (parsed \/ parse)
           /\ outcome' = IF raises THEN "update_failed" ELSE "success"
    /\ pc' = "idle"
    /\ UNCHANGED <<group, raw_data, response, q, mergeVars>>

NextSwap ==
    \/ UpdateStart
    \/ FetchTimeout
    \/ ResponseStored
    \/ SessionClosed
    \/ GetEvents
    \/ QueryCurrent
    \/ QueryNext
    \/ QueryBetween
    \/ QueryNextOutage
    \/ QueryNextConnectivity
    \/ QueryReturn

SpecSwap == Init /\ [][NextSwap]_vars

-----------------------------------------------------------------------------
(* Properties *)

\* the resolved events of the configured group
ConfiguredEvents == IF group = "" THEN <<>> ELSE get_events_for_group(group)

TransportFailures == {"client_error", "timeout"}

\* a cycle ends with a transport failure in this step
TransportFailureStep ==
    pc = "fetching" /\ pc' = "idle" /\ response' \in TransportFailures

\* C1: a fetch that fails in transport (timeout, connection error, non-2xx)
\* leaves schedule_date, updated_on and group_schedules unchanged, and the
\* configured group with them: get_current_event, get_next_event and
\* get_events_between read these fields and their arguments only, so each
\* returns after the failed fetch what it returned before it.
C1_TransportFailureKeepsSnapshot ==
    [][TransportFailureStep =>
        /\ schedule_date' = schedule_date
        /\ updated_on' = updated_on
        /\ group_schedules' = group_schedules
        /\ group' = group]_vars

\* a transport failure has followed a cycle that stored events
C1_Witness ==
    /\ pc = "idle"
    /\ response \in TransportFailures
    /\ parsed
    /\ ConfiguredEvents # <<>>
    /\ updated_on # None

\* C2: get_current_event(at) returns an event iff some resolved event of the
\* configured group has start <= at < end; the returned event itself has
\* start <= at < end; at most one event is returned.
C2_CurrentIffContaining ==
    q.op = "current" =>
        LET at == q.args[1]
            events == ConfiguredEvents
            Contains(e) == DtLeq(e.start, at) /\ DtLess(at, e.end)
        IN  /\ Len(q.result) <= 1
            /\ q.result # None <=>
                   \E i \in 1..Len(events) : Contains(events[i])
            /\ q.result # None =>
                   /\ Contains(q.result[1])
                   /\ \E i \in 1..Len(events) : events[i] = q.result[1]

\* an event was returned by get_current_event although a second event of the
\* group does not contain the instant
C2_Witness ==
    /\ q.op = "current"
    /\ q.result # None
    /\ \E i \in 1..Len(ConfiguredEvents) :
        ~ (/\ DtLeq(ConfiguredEvents[i].start, q.args[1])
           /\ DtLess(q.args[1], ConfiguredEvents[i].end))

\* the events of the configured group that are neither entirely before nor
\* entirely after [from, to]
OverlappingEvents(from, to) ==
    LET Overlaps(e) == DtLeq(from, e.end) /\ DtLeq(e.start, to)
    IN  SelectSeq(ConfiguredEvents, Overlaps)

AscendingByStart(events) ==
    \A i \in 1..Len(events), j \in 1..Len(events) :
        i < j => DtLeq(events[i].start, events[j].start)

\* C3 as stated: for every pair of instants from, to, get_events_between
\* returns exactly the events with end >= from and start <= to, in ascending
\* start order.
C3_BetweenEveryPair ==
    q.op = "between" =>
        /\ q.result = OverlappingEvents(q.args[1], q.args[2])
        /\ AscendingByStart(q.result)

\* C3 amended: for every pair of instants with from <= to, get_events_between
\* returns exactly the events with end >= from and start <= to, in ascending
\* start order (events touching a boundary included).
C3_BetweenOrderedPair ==
    (q.op = "between" /\ DtLeq(q.args[1], q.args[2])) =>
        /\ q.result = OverlappingEvents(q.args[1], q.args[2])
        /\ AscendingByStart(q.result)

\* a range query returned an event ending exactly at from and left another
\* event of the group out
C3_Witness ==
    /\ q.op = "between"
    /\ DtLeq(q.args[1], q.args[2])
    /\ \E i \in 1..Len(q.result) : q.result[i].end = q.args[1]
    /\ Len(q.result) < Len(ConfiguredEvents)

\* C4: get_next_event(at) returns the event with the smallest start among
\* those with start > at, and absent exactly when there is none.
C4_NextIsEarliestLater ==
    q.op = "next" =>
        LET at == q.args[1]
            events == ConfiguredEvents
            later == {i \in 1..Len(events) : DtLess(at, events[i].start)}
        IN  /\ q.result = None <=> later = {}
            /\ q.result # None =>
                   /\ Len(q.result) = 1
                   /\ \E i \in later : events[i] = q.result[1]
                   /\ \A i \in later :
                          DtLeq(q.result[1].start, events[i].start)

\* the stored ranges are not in start order, two events start later than the
\* instant, and get_next_event returned one
C4_Witness ==
    /\ q.op = "next"
    /\ q.result # None
    /\ Len(ConfiguredEvents) = 2
    /\ \A i \in 1..2 : DtLess(ConfiguredEvents[i].start, ConfiguredEvents[i].end)
    /\ DtLess(q.args[1], ConfiguredEvents[1].start)
    /\ DtLess(ConfiguredEvents[1].start, ConfiguredEvents[2].start)
    /\ _time_str_to_minutes(group_schedules[group][2][1])
           < _time_str_to_minutes(group_schedules[group][1][1])

\* a valid "HH:MM": a time of day 00:00 .. 23:59, or the sentinel 24:00
ValidTimeStr(t) ==
    \/ t[1] \in 0..23 /\ t[2] \in 0..59
    \/ t = <<24, 0>>

\* the instant a valid time string names on the schedule date
InstantOf(t, date) ==
    IF t = <<24, 0>>
    THEN [day |-> date + 1, min |-> 0]
    ELSE [day |-> date, min |-> t[1] * 60 + t[2]]

\* the raw ranges get_events_for_group(g) resolves
RawRanges(g) ==
    IF g \in DOMAIN group_schedules THEN group_schedules[g] ELSE <<>>

\* C5: every raw range with valid HH:MM values and end <= start (end = start
\* included) is resolved by get_events_for_group to an event that starts at
\* its start time and ends at 00:00 of the day after the schedule date.
C5_EndNotAfterStartEndsAtMidnight ==
    (q.op = "events" /\ schedule_date # None) =>
        \A i \in 1..Len(RawRanges(q.args[1])) :
            LET range == RawRanges(q.args[1])[i]
            IN  (/\ ValidTimeStr(range[1])
                 /\ ValidTimeStr(range[2])
                 /\ _time_str_to_minutes(range[2])
                        <= _time_str_to_minutes(range[1])) =>
                    \E j \in 1..Len(q.result) :
                        /\ q.result[j].start
                               = InstantOf(range[1], schedule_date[1])
                        /\ q.result[j].end
                               = [day |-> schedule_date[1] + 1, min |-> 0]

\* the event C6 expects for a valid raw range with start before end
PlainEvent(range, date) ==
    OutageEvent(EVENT_NAME_OUTAGE, InstantOf(range[1], date),
                InstantOf(range[2], date))

PlainRange(range) ==
    /\ ValidTimeStr(range[1])
    /\ ValidTimeStr(range[2])
    /\ _time_str_to_minutes(range[1]) < _time_str_to_minutes(range[2])

\* C6: every raw range with valid HH:MM values and start before end yields
\* exactly one event, from the schedule date at the start time to the
\* schedule date at the end time (24:00 being 00:00 of the following day);
\* no range yields a second event.
C6_PlainRangeOneEvent ==
    (q.op = "events" /\ schedule_date # None) =>
        LET ranges == RawRanges(q.args[1])
            date == schedule_date[1]
            Count(event) ==
                Cardinality({j \in 1..Len(q.result) : q.result[j] = event})
            Sources(event) ==
                Cardinality({i \in 1..Len(ranges) :
                    PlainRange(ranges[i]) /\ PlainEvent(ranges[i], date) = event})
        IN  /\ Len(q.result) <= Len(ranges)
            /\ \A i \in 1..Len(ranges) :
                   PlainRange(ranges[i]) =>
                       Count(PlainEvent(ranges[i], date)) >=
                           Sources(PlainEvent(ranges[i], date))
            /\ (\A i \in 1..Len(ranges) : PlainRange(ranges[i])) =>
                   /\ Len(q.result) = Len(ranges)
                   /\ \A j \in 1..Len(q.result) :
                          Count(q.result[j]) = Sources(q.result[j])

\* get_events_for_group resolved 22:00-style ranges: one ending 24:00 and
\* one ending before it, each to its one event
C6_Witness ==
    /\ q.op = "events"
    /\ schedule_date # None
    /\ Len(RawRanges(q.args[1])) = 2
    /\ \A i \in 1..2 : PlainRange(RawRanges(q.args[1])[i])
    /\ \E i \in 1..2 : RawRanges(q.args[1])[i][2] = <<24, 0>>
    /\ \E i \in 1..2 : RawRanges(q.args[1])[i][2] # <<24, 0>>
    /\ Len(q.result) = 2

\* i and i + 1 are joined: no gap and the same kind
Joined(events, i) ==
    /\ events[i].end = events[i + 1].start
    /\ events[i].event_type = events[i + 1].event_type

\* the positions at which a run of joined events starts
RunStarts(events) ==
    {i \in 1..Len(events) : i = 1 \/ ~ Joined(events, i - 1)}

\* the last position of the run that starts at i
RunEnd(events, i) ==
    CHOOSE j \in i..Len(events) :
        /\ j = Len(events) \/ ~ Joined(events, j)
        /\ \A k \in i..(j - 1) : Joined(events, k)

\* C7: merge_consecutive_outages joins two consecutive events iff the first
\* ends where the second starts and both have the same kind; neighbours with
\* a gap or of different kinds stay separate; a merged event spans from the
\* first start to the last end of its run.
C7_MergeJoinsExactlyAdjacentSameKind ==
    Len(merge_out) >= 1 =>
        LET merged == merge_out[1]
            starts == RunStarts(merge_in)
            Rank(i) == Cardinality({k \in starts : k <= i})
        IN  /\ Len(merged) = Cardinality(starts)
            /\ \A i \in starts :
                   merged[Rank(i)] =
                       OutageEvent(merge_in[i].event_type, merge_in[i].start,
                                   merge_in[RunEnd(merge_in, i)].end)

\* two events with no gap between them were joined and a third event of the
\* same kind, one minute after them, was kept apart
C7_Witness ==
    /\ Len(merge_out) >= 1
    /\ Len(merge_in) = 3
    /\ Len(merge_out[1]) = 2
    /\ Joined(merge_in, 1)
    /\ \A i \in 1..2 : DtLess(merge_in[i].start, merge_in[i].end)
    /\ merge_in[3].event_type = merge_in[2].event_type
    /\ merge_in[3].start.min = merge_in[2].end.min + 1

\* C8: merging is idempotent.
C8_MergeIdempotent ==
    Len(merge_out) = 2 => merge_out[2] = merge_out[1]

\* a merge that joined events has been merged again
C8_Witness ==
    /\ Len(merge_out) = 2
    /\ Len(merge_in) = 3
    /\ \A i \in 1..3 : DtLess(merge_in[i].start, merge_in[i].end)
    /\ Len(merge_out[1]) = 1

\* no events can be resolved for the configured group
NoSnapshotForGroup ==
    \/ group = ""
    \/ group \notin DOMAIN group_schedules
    \/ schedule_date = None
    \/ ~ parsed

\* C9: when the group is unset or not a key of group_schedules, or
\* schedule_date is absent, or no fetch has been parsed, get_current_event
\* and get_next_event return absent and get_events_between returns the
\* empty sequence.
C9_QueriesDegradeToEmpty ==
    (q.op \in {"current", "next", "between"} /\ NoSnapshotForGroup) =>
        q.result = <<>>

\* a range query ran on a snapshot that holds ranges for the configured
\* group and no schedule date
C9_Witness ==
    /\ q.op = "between"
    /\ schedule_date = None
    /\ group \in DOMAIN group_schedules
    /\ group_schedules[group] # <<>>
    /\ q.result = <<>>

\* C10: a cycle whose request fails in transport ends in the failure outcome
\* (UpdateFailed), never in a successful update.
C10_TransportFailureReported ==
    (pc = "idle" /\ response \in TransportFailures) =>
        outcome = "update_failed"

-----------------------------------------------------------------------------
(* Bodies without extractable text *)

\* the last finished cycle got a JSON body with no members, no menu items,
\* or a missing or empty rawHtml
NoTextCycle ==
    /\ response = "json"
    /\ outcome = "success"
    /\ raw_data.shape \in {"no_items", "no_rawhtml"}

\* C11: after a cycle whose JSON body yields no schedule text, the snapshot
\* is all-absent: no schedule date, no update instant, no group schedules,
\* whatever an earlier cycle stored.
C11_NoTextClearsSnapshot ==
    NoTextCycle =>
        /\ schedule_date = None
        /\ updated_on = None
        /\ group_schedules = <<>>

-----------------------------------------------------------------------------
(* Snapshot replacement *)

\* the last finished cycle got a body with a non-empty schedule text
TextCycle ==
    /\ response = "json"
    /\ outcome = "success"
    /\ raw_data.shape = "html"

\* what the date phrase alone yields: 27.01.2025 is a date, 31.02.2025 is
\* none
DateOf(text) ==
    IF text.date = Some(<<27, 1, 2025>>) THEN Some(27) ELSE None

\* what the update phrase alone yields: 10:00 27.01.2025 is an instant,
\* 25:00 27.01.2025 is none
UpdatedOnOf(text) ==
    IF text.upd = Some(<<<<10, 0>>, <<27, 1, 2025>>>>)
    THEN Some([day |-> 27, min |-> 600])
    ELSE None

\* C12: after a successful fetch with a non-empty schedule text, each of
\* schedule_date, updated_on and group_schedules is what that text alone
\* yields (absent or empty when its phrase is missing or malformed): nothing
\* is carried over, and a missing phrase does not keep the other fields
\* from being set.
C12_SnapshotFromTextAlone ==
    TextCycle =>
        /\ schedule_date = DateOf(raw_data.text)
        /\ updated_on = UpdatedOnOf(raw_data.text)
        /\ group_schedules = raw_data.text.groups

\* a text without date phrase has replaced a snapshot: the update instant
\* and the ranges of group 3.1 are set, the date is absent
C12_Witness ==
    /\ TextCycle
    /\ raw_data.text.date = None
    /\ schedule_date = None
    /\ updated_on # None
    /\ "3.1" \in DOMAIN group_schedules
    /\ group_schedules["3.1"] # <<>>

-----------------------------------------------------------------------------
(* Coordinator point queries *)

\* the start of get_next_event(now), absent when there is no next event
NextEventStart(now) ==
    IF get_next_event(now) = None
    THEN None
    ELSE Some(get_next_event(now)[1].start)

\* C13: coordinator.next_outage read at instant now is the start of
\* get_next_event(now) on the unmerged event list, also when the next event
\* starts exactly where the event containing now ends.
C13_NextOutageIsUnmergedNext ==
    q.op = "next_outage" => q.result = NextEventStart(q.args[1])

-----------------------------------------------------------------------------
(* Snapshot swap *)

\* the three fields the queries read
Snapshot == <<schedule_date, updated_on, group_schedules>>

\* the snapshot a text yields
SnapshotOf(text) ==
    <<_parse_schedule_text(text).schedule_date,
      _parse_schedule_text(text).updated_on,
      _parse_schedule_text(text).group_schedules>>

\* the snapshot is that of one text, or the all-absent one of a LoeApi no
\* text has been parsed by
OneFetchSnapshot ==
    IF parsed
    THEN \E text \in SwapTexts : Snapshot = SnapshotOf(text)
    ELSE Snapshot = <<None, None, <<>>>>

\* a query in progress has read the three fields as they are
QueryReadsSnapshot ==
    /\ q.op = "events" => q.result = get_events_for_group(q.args[1])
    /\ q.op = "current" => q.result = get_current_event(q.args[1])
    /\ q.op = "next" => q.result = get_next_event(q.args[1])
    /\ q.op = "between" =>
           q.result = get_events_between(q.args[1], q.args[2])

\* C14: at every point of a cycle, its suspension points included, the
\* three snapshot fields come from one fetch and a query reads them as they
\* are; they change in the one step that follows the session's close, all
\* to what the text of the new body yields, and a query step changes none.
C14_QuerySeesOneSnapshot ==
    /\ [](OneFetchSnapshot /\ QueryReadsSnapshot)
    /\ [][Snapshot' # Snapshot =>
            /\ pc = "closing"
            /\ pc' = "idle"
            /\ q = NoQuery
            /\ raw_data.shape = "html"
            /\ schedule_date' = SnapshotOf(raw_data.text)[1]
            /\ updated_on' = SnapshotOf(raw_data.text)[2]
            /\ group_schedules' = SnapshotOf(raw_data.text)[3]]_vars

\* a query returns events of the previous snapshot while the cycle is
\* suspended in the session's close with the body of another text stored
C14_Witness ==
    /\ pc = "closing"
    /\ raw_data.shape = "html"
    /\ raw_data.text # schedule_text
    /\ parsed
    /\ q.op = "between"
    /\ q.result # <<>>

-----------------------------------------------------------------------------
(* Resolved events *)

\* the queries that return events of the LoeApi
EventQueries == {"events", "current", "next", "between"}

\* C16: every event returned by get_events_for_group, and so by
\* get_current_event, get_next_event and get_events_between, has
\* start < end, whatever raw range it was resolved from.
C16_EventsStartBeforeEnd ==
    q.op \in EventQueries =>
        \A i \in 1..Len(q.result) :
            DtLess(q.result[i].start, q.result[i].end)

\* C17: in the result of get_events_for_group, each event ends no later
\* than the event after it starts, for every list of raw ranges of the
\* group.
C17_EventsDoNotOverlap ==
    q.op = "events" =>
        \A i \in 1..(Len(q.result) - 1) :
            DtLeq(q.result[i].end, q.result[i + 1].start)

\* a captured "HH:MM" with its hours in 0..24 and its minutes in 0..59
InRangeTimeStr(t) == t[1] \in 0..24 /\ t[2] \in 0..59

\* the raw ranges of g whose two time strings are both in range
InRangeRanges(g) ==
    LET BothInRange(range) ==
            InRangeTimeStr(range[1]) /\ InRangeTimeStr(range[2])
    IN  SelectSeq(RawRanges(g), BothInRange)

\* C18: get_events_for_group skips a raw range with hours outside 0-24 or
\* minutes outside 0-59, and that range alone: its result is the events of
\* the other ranges, in start order, with no event for the skipped range.
C18_InvalidRangeSkippedAlone ==
    (q.op = "events" /\ schedule_date # None) =>
        q.result = SortedByStart(ResolveRanges(InRangeRanges(q.args[1]),
                                               schedule_date[1]))

\* C19: every event returned by get_events_for_group, and so by the other
\* queries, lies within the schedule day: it starts no earlier than 00:00 of
\* the schedule date and ends no later than 00:00 of the day after, for
\* every captured pair of two-digit time strings, hour 24 and minutes 60-99
\* included.
C19_EventsWithinScheduleDay ==
    (q.op \in EventQueries /\ schedule_date # None) =>
        \A i \in 1..Len(q.result) :
            /\ DtLeq([day |-> schedule_date[1], min |-> 0],
                     q.result[i].start)
            /\ DtLeq(q.result[i].end,
                     [day |-> schedule_date[1] + 1, min |-> 0])

\* a range from 09:00 to "23:60" and a range starting at "24:30" have been
\* resolved to events that end, and start, at 00:00 of the next day
C19_Witness ==
    /\ q.op = "events"
    /\ schedule_date # None
    /\ RawRanges(q.args[1]) =
           <<<<<<9, 0>>, <<23, 60>>>>, <<<<24, 30>>, <<9, 0>>>>>>
    /\ Len(q.result) = 2
    /\ q.result[1].end = [day |-> schedule_date[1] + 1, min |-> 0]
    /\ q.result[2].start = [day |-> schedule_date[1] + 1, min |-> 0]

\* the merged events next_outage and next_connectivity look at when read at
\* now that contain now
MergedContaining(now) ==
    LET events == get_merged_outages(now, OUTAGE_LOOKAHEAD)
    IN  {events[i] : i \in
            {j \in 1..Len(events) :
                DtLeq(events[j].start, now) /\ DtLess(now, events[j].end)}}

\* C20: an instant returned by coordinator.next_outage or
\* coordinator.next_connectivity read at now is later than now; and when
\* now lies inside an event of the group, next_connectivity returns the end
\* of a merged event that contains now.
C20_NextInstantsAfterNow ==
    /\ (q.op \in {"next_outage", "next_connectivity"} /\ q.result # None) =>
           DtLess(q.args[1], q.result[1])
    /\ (q.op = "next_connectivity" /\ get_current_event(q.args[1]) # None) =>
           /\ q.result # None
           /\ \E event \in MergedContaining(q.args[1]) :
                  q.result[1] = event.end

\* next_connectivity, read inside an event, has returned the end of a merged
\* event that ends later than the event containing now
C20_Witness ==
    /\ q.op = "next_connectivity"
    /\ get_current_event(q.args[1]) # None
    /\ q.result # None
    /\ DtLess(get_current_event(q.args[1])[1].end, q.result[1])

====
